---------------------------- MODULE Spec2Model ----------------------------
(***************************************************************************)
(* Courier Address Scanner: the address extraction core of src/App.jsx.    *)
(*                                                                         *)
(* A JavaScript string is a sequence of one-character strings.  Indices    *)
(* into strings are 1-based here; postcodeIndex and the loop indices of    *)
(* extractAddress keep their 0-based JavaScript values.                    *)
(***************************************************************************)
EXTENDS Integers, Sequences, FiniteSets, TLC

(***************************************************************************)
(* Characters and character classes of the regular expressions.            *)
(***************************************************************************)
UpperLetters ==
    <<"A", "B", "C", "D", "E", "F", "G", "H", "I", "J", "K", "L", "M",
      "N", "O", "P", "Q", "R", "S", "T", "U", "V", "W", "X", "Y", "Z">>

LowerLetters ==
    <<"a", "b", "c", "d", "e", "f", "g", "h", "i", "j", "k", "l", "m",
      "n", "o", "p", "q", "r", "s", "t", "u", "v", "w", "x", "y", "z">>

Range(f) == {f[i] : i \in DOMAIN f}

\* [A-Za-z], and [A-Z] under the i flag
Letter == Range(UpperLetters) \cup Range(LowerLetters)

\* \d
Digit == {"0", "1", "2", "3", "4", "5", "6", "7", "8", "9"}

\* \s (also the characters String.prototype.trim strips)
WhiteSpace == {" ", "\t", "\r", "\n", "\f"}

\* \w, the class that decides \b
WordChar == Letter \cup Digit \cup {"_"}

\* [£$€¥#@%&*+=<>]
CurrencySymbols == {"£", "$", "€", "¥", "#", "@", "%", "&", "*", "+", "=", "<", ">"}

\* [£$€¥#@%&*+=<>\[\]{}|\\\/~`^]  (the grave accent is written "GRAVE")
SpecialChars == CurrencySymbols \cup {"[", "]", "{", "}", "|", "\\", "/", "~", "GRAVE", "^"}

\* [£$€¥#@%&*]
GarbleSymbols == {"£", "$", "€", "¥", "#", "@", "%", "&", "*"}

\* [A-Z0-9\-_] under the i flag
TrackingChar == Letter \cup Digit \cup {"-", "_"}

(***************************************************************************)
(* String primitives.                                                      *)
(***************************************************************************)
\* s.slice(from - 1, to - 1): the characters at positions from .. to-1
Slice(s, from, to) == [k \in 1..(to - from) |-> s[from + k - 1]]

\* number of characters of s in class cls: (s.match(/[cls]/g) || []).length
CountIn(s, cls) == Cardinality({k \in 1..Len(s) : s[k] \in cls})

\* String.prototype.trim
SetMin(S) == CHOOSE k \in S : \A m \in S : k <= m

SetMax(S) == CHOOSE k \in S : \A m \in S : k >= m

TrimTo(s, keep) == IF keep = {} THEN << >> ELSE Slice(s, SetMin(keep), SetMax(keep) + 1)

trim(s) == TrimTo(s, {k \in 1..Len(s) : s[k] \notin WhiteSpace})

\* String.prototype.toUpperCase on the characters of the model
UpperOf(c) ==
    IF c \in Range(LowerLetters)
    THEN UpperLetters[CHOOSE k \in 1..26 : LowerLetters[k] = c]
    ELSE c

toUpperCase(s) == [k \in 1..Len(s) |-> UpperOf(s[k])]

\* s.replace(/\s/g, '')
RECURSIVE StripWhiteSpace(_)
StripWhiteSpace(s) ==
    IF s = << >> THEN << >>
    ELSE IF Head(s) \in WhiteSpace THEN StripWhiteSpace(Tail(s))
    ELSE <<Head(s)>> \o StripWhiteSpace(Tail(s))

\* text.split('\n'): the pieces between newlines, one more than the newlines
RECURSIVE SplitFrom(_, _, _)
SplitFrom(s, k, piece) ==
    IF k > Len(s) THEN <<piece>>
    ELSE IF s[k] = "\n" THEN <<piece>> \o SplitFrom(s, k + 1, << >>)
    ELSE SplitFrom(s, k + 1, Append(piece, s[k]))

split(s) == SplitFrom(s, 1, << >>)

\* Array.prototype.join(sep)
RECURSIVE join(_, _)
join(parts, sep) ==
    IF parts = << >> THEN << >>
    ELSE IF Len(parts) = 1 THEN parts[1]
    ELSE parts[1] \o sep \o join(Tail(parts), sep)

CommaSpace == <<",", " ">>

Newline == <<"\n">>

\* text.split('\n').map(line => line.trim()).filter(line => line.length > 0)
NonEmpty(line) == Len(line) > 0

TrimAll(pieces) == [k \in DOMAIN pieces |-> trim(pieces[k])]

SplitLines(text) == SelectSeq(TrimAll(split(text)), NonEmpty)

(***************************************************************************)
(* POSTCODE_REGEX = /\b[A-Z]{1,2}\d[A-Z\d]?\s*\d[A-Z]{2}\b/i, matched the  *)
(* way a backtracking matcher does: each quantifier greedy first.  Every   *)
(* operator returns the position just after the match, or 0 for failure.   *)
(***************************************************************************)
At(s, k) == IF k \in 1..Len(s) THEN s[k] ELSE "EOS"

\* the pattern without its \b: every position passes
NoWordBoundary(s, k) == TRUE

\* \b at position k: exactly one of the characters before and at k is a \w
WordBoundary(s, k) == (At(s, k - 1) \in WordChar) # (At(s, k) \in WordChar)

\* \d[A-Z]{2}\b from position k
MatchInward(s, k) ==
    IF /\ At(s, k) \in Digit
       /\ At(s, k + 1) \in Letter
       /\ At(s, k + 2) \in Letter
       /\ WordBoundary(s, k + 3)
    THEN k + 3 ELSE 0

\* \s* taking n whitespace characters, then fewer on failure
\* the first alternative a backtracking matcher tries, or on failure the next
OrElse(first, next) == IF first # 0 THEN first ELSE next

RECURSIVE MatchSpaces(_, _, _)
MatchSpaces(s, k, n) ==
    OrElse(MatchInward(s, k + n), IF n = 0 THEN 0 ELSE MatchSpaces(s, k, n - 1))

\* the longest run of whitespace from position k
RECURSIVE SpaceRun(_, _)
SpaceRun(s, k) == IF At(s, k) \in WhiteSpace THEN 1 + SpaceRun(s, k + 1) ELSE 0

\* [A-Z\d]?\s*... from position k: with the optional character first
MatchSpacesFrom(s, k) == MatchSpaces(s, k, SpaceRun(s, k))

MatchOptional(s, k) ==
    OrElse(IF At(s, k) \in Letter \cup Digit THEN MatchSpacesFrom(s, k + 1) ELSE 0,
           MatchSpacesFrom(s, k))

\* \d[A-Z\d]?... from position k
MatchOutwardDigit(s, k) == IF At(s, k) \in Digit THEN MatchOptional(s, k + 1) ELSE 0

\* the whole pattern from position k: \b, then two letters before one
MatchAt(s, k) ==
    IF ~(WordBoundary(s, k) /\ At(s, k) \in Letter) THEN 0
    ELSE OrElse(IF At(s, k + 1) \in Letter THEN MatchOutwardDigit(s, k + 2) ELSE 0,
                MatchOutwardDigit(s, k + 1))

\* the leftmost position >= from at which the pattern matches, or 0
RECURSIVE Search(_, _)
Search(s, from) ==
    IF from > Len(s) THEN 0
    ELSE IF MatchAt(s, from) # 0 THEN from
    ELSE Search(s, from + 1)

\* The flags of POSTCODE_REGEX are "i": neither global nor sticky.
\* RegExpBuiltinExec on such a regular expression searches from index 0
\* whatever lastIndex holds and leaves lastIndex as it was.
\* the result of an exec: the match from start to end, and the new lastIndex
ExecResult(s, start, end, lastIndex) ==
    IF start = 0
    THEN [found |-> FALSE, match |-> << >>, index |-> 0, lastIndex |-> lastIndex]
    ELSE [found |-> TRUE, match |-> Slice(s, start, end), index |-> start,
          lastIndex |-> lastIndex]

MatchFrom(s, start) == IF start = 0 THEN 0 ELSE MatchAt(s, start)

\* exec of a global regular expression: from lastIndex, which it moves
ExecGlobalAt(s, start, end) ==
    ExecResult(s, start, end, IF start = 0 THEN 0 ELSE end - 1)

ExecGlobalFrom(s, start) == ExecGlobalAt(s, start, MatchFrom(s, start))

RegExpBuiltinExecGlobal(s, lastIndex) ==
    ExecGlobalFrom(s, IF lastIndex > Len(s) THEN 0 ELSE Search(s, lastIndex + 1))

ExecFrom(s, start, lastIndex) == ExecResult(s, start, MatchFrom(s, start), lastIndex)

RegExpBuiltinExec(s, lastIndex) == ExecFrom(s, Search(s, 1), lastIndex)

(***************************************************************************)
(* Completions: a call returns a value or throws.  JavaScript numbers:     *)
(* a quotient is a NaN (0/0) or a ratio, and every comparison with a NaN   *)
(* is false.                                                               *)
(***************************************************************************)
Normal(v) == [threw |-> FALSE, value |-> v]

Thrown(v) == [threw |-> TRUE, value |-> v]

\* count / trimmed.length; the counts never exceed the length, so a zero
\* divisor only ever meets a zero dividend
JsDivide(n, d) ==
    IF d = 0 THEN [nan |-> TRUE, num |-> 0, den |-> 1]
    ELSE [nan |-> FALSE, num |-> n, den |-> d]

\* the / operator on numbers never throws; a trapping integer division would
DivideThrowsOnZero(n, d) == d = 0

DivideThrows(n, d) == FALSE

\* r > p/q
JsGreater(r, p, q) == ~r.nan /\ r.num * q > p * r.den

\* r <= p/q
JsAtMost(r, p, q) == ~r.nan /\ r.num * q <= p * r.den

\* r < p/q
JsLess(r, p, q) == ~r.nan /\ r.num * q < p * r.den

(***************************************************************************)
(* The two line classifiers of extractAddress.                             *)
(***************************************************************************)
HeaderKeywords ==
    { <<"S", "H", "I", "P">>,
      <<"D", "E", "L", "I", "V", "E", "R", "Y">>,
      <<"A", "D", "D", "R", "E", "S", "S">>,
      <<"T", "O">>,
      <<"F", "R", "O", "M">>,
      <<"O", "R", "D", "E", "R">>,
      <<"T", "R", "A", "C", "K", "I", "N", "G">>,
      <<"P", "A", "R", "C", "E", "L">>,
      <<"R", "E", "F">> }

\* /^(SHIP|DELIVERY|ADDRESS|TO|FROM|ORDER|TRACKING|PARCEL|REF)/i.test(s)
StartsWithHeader(s) ==
    \E kw \in HeaderKeywords :
        Len(s) >= Len(kw) /\ toUpperCase(Slice(s, 1, Len(kw) + 1)) = kw

\* /[A-Za-z].*\d.*[£$€¥#@%&*]/.test(s): a letter, later a digit, later a
\* symbol, with no line terminator in between
HasGarble(s) ==
    \E i \in 1..Len(s), j \in 1..Len(s), k \in 1..Len(s) :
        /\ i < j /\ j < k
        /\ s[i] \in Letter /\ s[j] \in Digit /\ s[k] \in GarbleSymbols
        /\ \A m \in (i + 1)..(k - 1) : m = j \/ s[m] \notin {"\n", "\r"}

\* /^[A-Z0-9\-_]{15,}$/i.test(s)
IsTrackingRun(s) == Len(s) >= 15 /\ \A k \in 1..Len(s) : s[k] \in TrackingChar

\* isPackageMetadata after const trimmed = line.trim()
PackageMetadataOf(trimmed, len, specialChars, digits, letterCount) ==
    IF len < 4 /\ CountIn(trimmed, CurrencySymbols) > 0 THEN Normal(TRUE)
    ELSE IF specialChars > 2 \/ (specialChars > 0 /\ len < 8) THEN Normal(TRUE)
    ELSE IF len > 3 /\ CountIn(trimmed, WhiteSpace) = 0 /\ HasGarble(trimmed)
         THEN Normal(TRUE)
    ELSE IF len > 40 THEN Normal(TRUE)
    ELSE IF IsTrackingRun(StripWhiteSpace(trimmed)) THEN Normal(TRUE)
    ELSE IF trimmed = toUpperCase(trimmed) /\ StartsWithHeader(trimmed)
         THEN Normal(TRUE)
    ELSE IF DivideThrows(digits, len) THEN Thrown(FALSE)
    ELSE IF JsGreater(JsDivide(digits, len), 8, 10) /\ len > 10 THEN Normal(TRUE)
    ELSE IF letterCount < 2 /\ len > 5 THEN Normal(TRUE)
    ELSE Normal(FALSE)

PackageMetadataTrimmed(trimmed) ==
    PackageMetadataOf(trimmed, Len(trimmed), CountIn(trimmed, SpecialChars),
                      CountIn(trimmed, Digit), CountIn(trimmed, Letter))

isPackageMetadata(line) == PackageMetadataTrimmed(trim(line))

\* isValidAddressLine after const trimmed = line.trim()
ValidAddressLineOf(trimmed, len, letterCount) ==
    IF CountIn(trimmed, Letter) = 0 THEN Normal(FALSE)
    ELSE IF len < 2 \/ len > 50 THEN Normal(FALSE)
    ELSE IF DivideThrows(letterCount, len) THEN Thrown(FALSE)
    ELSE IF JsLess(JsDivide(letterCount, len), 4, 10) /\ len > 5 THEN Normal(FALSE)
    ELSE Normal(TRUE)

ValidAddressLineTrimmed(trimmed) ==
    ValidAddressLineOf(trimmed, Len(trimmed), CountIn(trimmed, Letter \cup WhiteSpace))

isValidAddressLine(line) == ValidAddressLineTrimmed(trim(line))

(***************************************************************************)
(* extractAddress.  lastIndex is the lastIndex property of POSTCODE_REGEX, *)
(* the one piece of state a call could leave behind for the next.          *)
(***************************************************************************)
\* the most lines kept before the postcode (the loop condition of the scan)
MaxAddressLines == 4

\* Math.min(8, postcodeIndex): the most lines inspected
MaxLinesToCheck == 8

Min(a, b) == IF a < b THEN a ELSE b

Max(a, b) == IF a > b THEN a ELSE b

\* the locating loop without its break: the last matching line wins
LastOf(i, test, rest) ==
    IF test.found /\ rest.postcodeIndex = -1
    THEN [postcodeIndex |-> i, lastIndex |-> rest.lastIndex]
    ELSE rest

RECURSIVE FindPostcodeNoBreak(_, _, _)
RECURSIVE FindPostcodeNoBreakTested(_, _, _)
FindPostcodeNoBreakTested(lines, i, test) ==
    LastOf(i, test, FindPostcodeNoBreak(lines, i + 1, test.lastIndex))

FindPostcodeNoBreak(lines, i, lastIndex) ==
    IF i >= Len(lines) THEN [postcodeIndex |-> -1, lastIndex |-> lastIndex]
    ELSE FindPostcodeNoBreakTested(lines, i, RegExpBuiltinExec(lines[i + 1], lastIndex))

\* for (let i = 0; i < lines.length; i++) if (POSTCODE_REGEX.test(lines[i])) ...
RECURSIVE FindPostcode(_, _, _)
RECURSIVE FindPostcodeTested(_, _, _)
FindPostcodeTested(lines, i, test) ==
    IF test.found
    THEN [postcodeIndex |-> i, lastIndex |-> test.lastIndex]
    ELSE FindPostcode(lines, i + 1, test.lastIndex)

FindPostcode(lines, i, lastIndex) ==
    IF i >= Len(lines) THEN [postcodeIndex |-> -1, lastIndex |-> lastIndex]
    ELSE FindPostcodeTested(lines, i, RegExpBuiltinExec(lines[i + 1], lastIndex))

\* postcodeMatch ? postcodeMatch[0] : lines[postcodeIndex]
PostcodeOf(line, postcodeMatch) ==
    [postcode |-> IF postcodeMatch.found THEN postcodeMatch.match ELSE line,
     lastIndex |-> postcodeMatch.lastIndex]

\* the whole line taken as the postcode
WholeLineOf(line, postcodeMatch) ==
    [postcode |-> line, lastIndex |-> postcodeMatch.lastIndex]

MatchPostcodeWholeLine(line, lastIndex) ==
    WholeLineOf(line, RegExpBuiltinExec(line, lastIndex))

\* lines[postcodeIndex].match(POSTCODE_REGEX)
MatchPostcode(line, lastIndex) == PostcodeOf(line, RegExpBuiltinExec(line, lastIndex))

\* the fallback with the cleaned lines returned in place of the text
NoPostcodeResultCleaned(text, lines) == join(lines, Newline)

\* if (postcodeIndex === -1) return text
NoPostcodeResult(text, lines) == text

\* the scan as it leaves its loop: the lines kept, and the loop's i and
\* linesToCheck at the exit
Scanned(threw, addressLines, i, linesToCheck) ==
    [threw |-> threw, value |-> addressLines, i |-> i, linesToCheck |-> linesToCheck]

\* the scan stopping at the first rejected line
RECURSIVE CollectAddressLinesStopping(_, _, _, _)
RECURSIVE StoppingStep(_, _, _, _, _, _)
StoppingStep(lines, i, addressLines, linesToCheck, noise, valid) ==
    IF noise.value \/ ~valid.value THEN Scanned(FALSE, addressLines, i, linesToCheck)
    ELSE CollectAddressLinesStopping(lines, i - 1, <<lines[i + 1]>> \o addressLines,
                                     linesToCheck - 1)

CollectAddressLinesStopping(lines, i, addressLines, linesToCheck) ==
    IF ~(i >= 0 /\ Len(addressLines) < 4 /\ linesToCheck > 0)
    THEN Scanned(FALSE, addressLines, i, linesToCheck)
    ELSE StoppingStep(lines, i, addressLines, linesToCheck,
                      isPackageMetadata(lines[i + 1]), isValidAddressLine(lines[i + 1]))

\* the scan with no cap on the lines it keeps
RECURSIVE CollectAddressLinesUncapped(_, _, _, _)
RECURSIVE UncappedStep(_, _, _, _, _, _)
UncappedStep(lines, i, addressLines, linesToCheck, noise, valid) ==
    IF noise.value \/ ~valid.value
    THEN CollectAddressLinesUncapped(lines, i - 1, addressLines, linesToCheck - 1)
    ELSE CollectAddressLinesUncapped(lines, i - 1, <<lines[i + 1]>> \o addressLines,
                                     linesToCheck - 1)

CollectAddressLinesUncapped(lines, i, addressLines, linesToCheck) ==
    IF ~(i >= 0 /\ linesToCheck > 0)
    THEN Scanned(FALSE, addressLines, i, linesToCheck)
    ELSE UncappedStep(lines, i, addressLines, linesToCheck,
                      isPackageMetadata(lines[i + 1]), isValidAddressLine(lines[i + 1]))

\* for (let i = postcodeIndex - 1;
\*      i >= 0 && addressLines.length < 4 && linesToCheck > 0; i--) ...
RECURSIVE CollectAddressLines(_, _, _, _)
RECURSIVE CollectStep(_, _, _, _, _, _)
\* the body of the loop charging linesToCheck for the lines it keeps only
CollectStepKeptOnly(lines, i, addressLines, linesToCheck, noise, valid) ==
    IF noise.value \/ ~valid.value
    THEN CollectAddressLines(lines, i - 1, addressLines, linesToCheck)
    ELSE CollectAddressLines(lines, i - 1, <<lines[i + 1]>> \o addressLines,
                             linesToCheck - 1)

\* the body of the loop without its validity test: noise alone is skipped
CollectStepNoiseOnly(lines, i, addressLines, linesToCheck, noise, valid) ==
    IF noise.value
    THEN CollectAddressLines(lines, i - 1, addressLines, linesToCheck - 1)
    ELSE CollectAddressLines(lines, i - 1, <<lines[i + 1]>> \o addressLines,
                             linesToCheck - 1)

\* the body of the loop on lines[i], classified as noise and valid
CollectStep(lines, i, addressLines, linesToCheck, noise, valid) ==
    IF noise.threw THEN Scanned(TRUE, addressLines, i, linesToCheck)
    ELSE IF noise.value
         THEN CollectAddressLines(lines, i - 1, addressLines, linesToCheck - 1)
    ELSE IF valid.threw THEN Scanned(TRUE, addressLines, i, linesToCheck)
    ELSE IF ~valid.value
         THEN CollectAddressLines(lines, i - 1, addressLines, linesToCheck - 1)
    ELSE IF Len(addressLines) >= 4 THEN Scanned(FALSE, addressLines, i, linesToCheck)
    ELSE CollectAddressLines(lines, i - 1, <<lines[i + 1]>> \o addressLines,
                             linesToCheck - 1)

CollectAddressLines(lines, i, addressLines, linesToCheck) ==
    IF ~(i >= 0 /\ Len(addressLines) < MaxAddressLines /\ linesToCheck > 0)
    THEN Scanned(FALSE, addressLines, i, linesToCheck)
    ELSE CollectStep(lines, i, addressLines, linesToCheck,
                     isPackageMetadata(lines[i + 1]), isValidAddressLine(lines[i + 1]))

\* what a call hands back: the completion, and the locals the claims speak of
Outcome(threw, value, postcodeIndex, postcode, addressLines, lastIndex, i, linesToCheck) ==
    [threw |-> threw, value |-> value, postcodeIndex |-> postcodeIndex,
     postcode |-> postcode, addressLines |-> addressLines, lastIndex |-> lastIndex,
     i |-> i, linesToCheck |-> linesToCheck]

\* addressLines.push(postcode); return addressLines.join(', ')
Assemble(postcodeIndex, matched, collected) ==
    IF collected.threw
    THEN Outcome(TRUE, << >>, postcodeIndex, matched.postcode, collected.value,
                 matched.lastIndex, collected.i, collected.linesToCheck)
    ELSE Outcome(FALSE, join(collected.value \o <<matched.postcode>>, CommaSpace),
                 postcodeIndex, matched.postcode,
                 collected.value \o <<matched.postcode>>, matched.lastIndex,
                 collected.i, collected.linesToCheck)

\* extractAddress from the located postcode on
AfterLocating(text, lines, postcodeIndex, lastIndex) ==
    IF postcodeIndex = -1
    THEN Outcome(FALSE, NoPostcodeResult(text, lines), -1, << >>, << >>, lastIndex,
                 -1, 0)
    ELSE Assemble(postcodeIndex,
                  MatchPostcode(lines[postcodeIndex + 1], lastIndex),
                  CollectAddressLines(lines, postcodeIndex - 1, << >>,
                                      Min(MaxLinesToCheck, postcodeIndex)))

Located(text, lines, located) ==
    AfterLocating(text, lines, located.postcodeIndex, located.lastIndex)

ExtractFromLines(text, lines, lastIndex) ==
    Located(text, lines, FindPostcode(lines, 0, lastIndex))

extractAddress(text, lastIndex) == ExtractFromLines(text, SplitLines(text), lastIndex)

(***************************************************************************)
(* The earlier extractAddress (src/unnamed/part_000): the last four lines  *)
(* before the postcode, minus the obvious non-address lines.               *)
(***************************************************************************)
\* the window of the earlier version: postcodeIndex - 4
SimpleWindow == 4

AllIn(s, cls) == \A k \in 1..Len(s) : s[k] \in cls

\* the lines the earlier loop does not skip
SimpleKeepsTrimmed(line, noSpaces) ==
    /\ Len(line) # 0
    /\ ~(Len(line) > 50)
    /\ ~(Len(noSpaces) > 15 /\ AllIn(noSpaces, TrackingChar))
    /\ ~(Len(noSpaces) > 12 /\ AllIn(noSpaces, Digit))

SimpleKeeps(line) == SimpleKeepsTrimmed(line, StripWhiteSpace(line))

\* for (let i = startIndex; i < postcodeIndex; i++) ... addressLines.push(line)
SimpleCollect(lines, startIndex, postcodeIndex) ==
    Scanned(FALSE,
            SelectSeq(TrimAll(SubSeq(lines, startIndex + 1, postcodeIndex)), SimpleKeeps),
            postcodeIndex, 0)

AfterLocatingSimple(text, lines, postcodeIndex, lastIndex) ==
    IF postcodeIndex = -1
    THEN Outcome(FALSE, NoPostcodeResult(text, lines), -1, << >>, << >>, lastIndex,
                 -1, 0)
    ELSE Assemble(postcodeIndex,
                  MatchPostcode(lines[postcodeIndex + 1], lastIndex),
                  SimpleCollect(lines, Max(0, postcodeIndex - SimpleWindow), postcodeIndex))

LocatedSimple(text, lines, located) ==
    AfterLocatingSimple(text, lines, located.postcodeIndex, located.lastIndex)

ExtractFromLinesSimple(text, lines, lastIndex) ==
    LocatedSimple(text, lines, FindPostcode(lines, 0, lastIndex))

extractAddressSimple(text, lastIndex) ==
    ExtractFromLinesSimple(text, SplitLines(text), lastIndex)

(***************************************************************************)
(* Inputs.  The texts handed to extractAddress are                         *)
(*   - every text of up to MaxWide lines drawn from LinePool: blank lines, *)
(*     padding, a postcode inside a sentence, in lower case, run into a    *)
(*     neighbouring letter or digit, twice on a line, split over two       *)
(*     lines, symbols only, a header;                                      *)
(*   - every text of up to MaxDeep lines, each accepted or rejected, then  *)
(*     a postcode line, then one of DeepTails: the backward scan and its   *)
(*     two budgets;                                                        *)
(*   - the scenarios of the specification.                                 *)
(* The strings handed to the classifiers alone are ClassifierInputs.       *)
(***************************************************************************)
MaxWide == 3

MaxDeep == 10

LinePool ==
    { << >>,
      <<" ", "\t">>,
      <<" ", "J", "o", " ", "L", "e", "e">>,
      <<"a", "t", " ", "B", "1", " ", "1", "A", "A", ".">>,
      <<"t", "o", " ", "s", "w", "1", "a", " ", "1", "a", "a", " ">>,
      <<"B", "1", " ", "1", "A", "A", "X">>,
      <<"9", "B", "1", "\t", " ", "1", "A", "A">>,
      <<"N", "1", " ", "2", "C", "D", " ", "E", "3", " ", "4", "F", "G">>,
      <<"£", "$", "%">>,
      <<"S", "H", "I", "P", " ", "T", "O">>,
      <<"B", "1">>,
      <<"1", "A", "A">> }

ScenarioA ==
    <<"J", "O", "H", "N", " ", "S", "M", "I", "T", "H", "\n", "4", "2", " ", "H", "I", "G", "H", " ", "S", "T", "R", "E", "E", "T", "\n", "L", "O", "N", "D", "O", "N", "\n", "S", "W", "1", "A", " ", "1", "A", "A", "\n", "T", "R", "A", "C", "K", "I", "N", "G", "1", "2", "3", "4", "5", "6", "7", "8", "9", "A", "B", "C">>

ScenarioB ==
    <<"S", "H", "I", "P", " ", "T", "O", "\n", "3", "£", "\n", "J", "O", "H", "N", " ", "S", "M", "I", "T", "H", "\n", "4", "2", " ", "H", "I", "G", "H", " ", "S", "T", "R", "E", "E", "T", "\n", "B", "E", "L", "F", "A", "S", "T", "\n", "B", "T", "1", " ", "1", "A", "A">>

ScenarioD ==
    <<"A", "B", "1", "2", "3", "4", "5", "6", "7", "8", "9", "0", "1", "2", "3", "4", "5", "6", "7", "8", "9", "\n", "B", "T", "2", " ", "3", "X", "Y">>

ScenarioE ==
    <<"S", "W", "1", "A", " ", "1", "A", "A", "\n", "i", "r", "r", "e", "l", "e", "v", "a", "n", "t", " ", "l", "i", "n", "e">>

Scenarios == {ScenarioA, ScenarioB, ScenarioD, ScenarioE}

SeqsUpTo(S, n) == UNION {[1..m -> S] : m \in 0..n}

WideTexts == {join(ls, Newline) : ls \in SeqsUpTo(LinePool, MaxWide)}

DeepKinds == {"accepted", "rejected"}

\* the line of a kind at position k of a deep text.  Accepted lines differ by
\* position, so their order shows in the output; rejected lines are by turns
\* noise (isPackageMetadata) and invalid (not isValidAddressLine)
DeepLine(kind, k) ==
    IF kind = "accepted" THEN <<UpperLetters[k], "d">>
    ELSE IF k % 2 = 1 THEN <<UpperLetters[k], "£">>
    ELSE <<"4", "2">>

DeepPostcodeLine == <<"B", "1", " ", "1", "A", "A">>

DeepTails == { << >>, << <<"Z", "z">>, <<"B", "2", " ", "2", "C", "D">> >> }

DeepLines(kinds) == [k \in DOMAIN kinds |-> DeepLine(kinds[k], k)]

DeepTexts ==
    {join(DeepLines(kinds) \o <<DeepPostcodeLine>> \o tail, Newline) :
        kinds \in SeqsUpTo(DeepKinds, MaxDeep), tail \in DeepTails}

Inputs == WideTexts \cup DeepTexts \cup Scenarios

\* tokens without whitespace that mix a letter, a digit and a symbol, in
\* several orders and lengths
GarbledProbes ==
    { <<"a", "b", "c", "d", "e", "1", "2", "£">>,
      <<"£", "1", "2", "a", "b", "c", "d", "e">>,
      <<"1", "2", "a", "b", "c", "d", "e", "£">>,
      <<"a", "b", "£", "c", "d", "e", "1", "2">>,
      <<"F", "l", "a", "t", "1", "/", "2", "a">>,
      <<"a", "1", "£">>,
      <<"x", "9", "y", "8", "z", "7", "w", "6", "#">> }

\* lines at the edges of the validity test: lengths 1, 2, 5, 6, 50 and 51, a
\* share of letters and whitespace of exactly 0.4 and just below, no letter,
\* padding
ValidityProbes ==
    { <<"a">>,
      <<"a", "1">>,
      <<"1", "2", "3", "4", "a">>,
      <<"1", "2", "3", "4", "5", "a">>,
      <<"a", "b", " ", "c", "1", "2", "3", "4", "5", "6">>,
      <<"a", "b", "c", "1", "2", "3", "4", "5", "6", "7">>,
      <<"1", "2", " ", "3", "4">>,
      <<" ", "a">>,
      <<" ", " ", "1", "2", "3", "4", "a", "b">>,
      <<"1", "\t", "\t", "\t", "2", "a">>,
      <<"F", "l", "a", "t", " ", "1", "2", " ", "R", "o", "s", "e", " ", "C", "o", "u", "r", "t", " ", "2", "2", "1", " ", "U", "p", "p", "e", "r", " ", "N", "e", "w", "t", "o", "w", "n", "a", "r", "d", "s", " ", "R", "o", "a", "d", " ", "E", "a", "s", "t">>,
      <<"F", "l", "a", "t", " ", "1", "2", " ", "R", "o", "s", "e", " ", "C", "o", "u", "r", "t", " ", "2", "2", "1", " ", "U", "p", "p", "e", "r", " ", "N", "e", "w", "t", "o", "w", "n", "a", "r", "d", "s", " ", "R", "o", "a", "d", " ", "E", "a", "s", "t", "s">> }

ClassifierInputs ==
    LinePool \cup {DeepLine(kind, k) : kind \in DeepKinds, k \in 1..2}
             \cup UNION {Range(split(t)) : t \in Scenarios}
             \cup GarbledProbes
             \cup ValidityProbes

(***************************************************************************)
(* The state machine: a text arrives and extractAddress (either version)   *)
(* is applied to it, once or again, then to its own output or to the text  *)
(* of another scan; or a string arrives and the classifiers are applied to *)
(* it.  Calls are atomic: extractAddress is synchronous and JavaScript     *)
(* runs it to completion.                                                  *)
(***************************************************************************)
\* the most calls made on one text
MaxCalls == 2

VARIABLES
    text,           \* the argument of the calls
    mode,           \* "idle", "extracted", "extractedSimple", "probing", "classified";
                    \* "app" under AppSpec
    generation,     \* 0 for an input text, 1 for the output of a call fed back
    calls,          \* the calls made on text so far
    lastIndex,      \* POSTCODE_REGEX.lastIndex
    threw,          \* the last call threw
    result,         \* the string the last call returned
    postcodeIndex,  \* the locals of the last call at its return
    postcode,
    addressLines,
    scanIndex,      \* the scan's i and linesToCheck as the last call left its loop
    linesToCheck,
    origPostcode,   \* the postcode of the call whose output text is
    probe,          \* the string given to the classifiers
    noise,          \* the completion of isPackageMetadata(probe)
    valid           \* the completion of isValidAddressLine(probe)

\* the state of the App component and of what it has set going
VARIABLES
    image,          \* useState: the File chosen, "null" when none
    imageUrl,       \* useState: the image shown and scanned, "null" when none
    isScanning,     \* useState
    detectedText,   \* useState
    parsedAddress,  \* useState
    showCamera,     \* useState
    showToast,      \* useState: the message shown, "" when hidden
    isIOS,          \* the platform test of the render
    reads,          \* the files a FileReader is still loading
    runs,           \* the calls of processImageWithOCR that have not returned
    runCount,       \* the calls of processImageWithOCR so far
    clipboard,      \* the text on the clipboard
    opened,         \* the last URL handed to the browser
    typed           \* what the user last typed into the address field

coreVars == <<text, mode, generation, calls, lastIndex, threw, result, postcodeIndex,
              postcode, addressLines, scanIndex, linesToCheck, origPostcode, probe,
              noise, valid>>

appVars == <<image, imageUrl, isScanning, detectedText, parsedAddress, showCamera,
             showToast, isIOS, reads, runs, runCount, clipboard, opened, typed>>

vars == <<coreVars, appVars>>

\* nothing the user has typed, nothing written or opened
Nothing == [set |-> FALSE, value |-> << >>]

\* no URL opened yet
NoUrl == [set |-> FALSE, service |-> "", query |-> << >>]

\* the App component as it mounts: the initial values of its useState calls
Mounted ==
    /\ image = "null"
    /\ imageUrl = "null"
    /\ isScanning = FALSE
    /\ detectedText = << >>
    /\ parsedAddress = << >>
    /\ showCamera = FALSE
    /\ showToast = ""
    /\ reads = {}
    /\ runs = {}
    /\ runCount = 0
    /\ clipboard = << >>
    /\ opened = NoUrl
    /\ typed = Nothing

\* nothing returned yet
NoResult ==
    /\ threw = FALSE
    /\ result = << >>
    /\ postcodeIndex = -1
    /\ postcode = << >>
    /\ addressLines = << >>
    /\ scanIndex = -1
    /\ linesToCheck = 0

Init ==
    /\ \/ text \in Inputs /\ probe = << >> /\ mode = "idle"
       \/ text = << >> /\ probe \in ClassifierInputs /\ mode = "probing"
    /\ generation = 0
    /\ calls = 0
    /\ lastIndex = 0
    /\ NoResult
    /\ origPostcode = << >>
    /\ noise = Normal(FALSE)
    /\ valid = Normal(FALSE)
    /\ isIOS = FALSE
    /\ Mounted

\* the state a call leaves
Returned(out, newMode) ==
    /\ mode' = newMode
    /\ calls' = calls + 1
    /\ lastIndex' = out.lastIndex
    /\ threw' = out.threw
    /\ result' = out.value
    /\ postcodeIndex' = out.postcodeIndex
    /\ postcode' = out.postcode
    /\ addressLines' = out.addressLines
    /\ scanIndex' = out.i
    /\ linesToCheck' = out.linesToCheck
    /\ UNCHANGED <<text, generation, origPostcode, probe, noise, valid>>
    /\ UNCHANGED appVars

\* extractAddress(text), for the first time or again
Call ==
    /\ mode \in {"idle", "extracted"}
    /\ calls < MaxCalls
    /\ Returned(extractAddress(text, lastIndex), "extracted")

\* the earlier extractAddress(text)
CallSimple ==
    /\ mode = "idle"
    /\ calls < MaxCalls
    /\ Returned(extractAddressSimple(text, lastIndex), "extractedSimple")

\* the output of a call becomes the text of the next
Rerun ==
    /\ mode = "extracted"
    /\ generation = 0
    /\ ~threw
    /\ postcodeIndex # -1
    /\ text' = result
    /\ origPostcode' = postcode
    /\ generation' = 1
    /\ mode' = "idle"
    /\ calls' = 0
    /\ UNCHANGED <<lastIndex, threw, result, postcodeIndex, postcode, addressLines,
                   scanIndex, linesToCheck, probe, noise, valid>>
    /\ UNCHANGED appVars

\* another scan hands in its text; the locals of the last call are gone, the
\* regular expression object is the same
NewScan ==
    /\ mode \in {"extracted", "extractedSimple"}
    /\ text' \in Scenarios
    /\ mode' = "idle"
    /\ generation' = 0
    /\ calls' = 0
    /\ threw' = FALSE
    /\ result' = << >>
    /\ postcodeIndex' = -1
    /\ postcode' = << >>
    /\ addressLines' = << >>
    /\ scanIndex' = -1
    /\ linesToCheck' = 0
    /\ origPostcode' = << >>
    /\ UNCHANGED <<lastIndex, probe, noise, valid>>
    /\ UNCHANGED appVars

\* isPackageMetadata(probe) and isValidAddressLine(probe)
Classify ==
    /\ mode = "probing"
    /\ noise' = isPackageMetadata(probe)
    /\ valid' = isValidAddressLine(probe)
    /\ mode' = "classified"
    /\ UNCHANGED <<text, generation, calls, lastIndex, threw, result, postcodeIndex,
                   postcode, addressLines, scanIndex, linesToCheck, origPostcode, probe>>
    /\ UNCHANGED appVars

Next == Call \/ CallSimple \/ Rerun \/ NewScan \/ Classify

Spec == Init /\ [][Next]_vars

(***************************************************************************)
(* The App component around extractAddress: the user picks a file or takes *)
(* a photo, processImageWithOCR runs the recognition and extractAddress on *)
(* its text, the user edits the address, copies it, opens it in a map, or  *)
(* resets.  Every handler runs to completion (JavaScript is single         *)
(* threaded and React applies the state updates of a handler together);    *)
(* between handlers, file loads, recognitions, clipboard writes and the    *)
(* toast timer complete in any order.  A handler of an element is enabled  *)
(* when the render shows the element.                                      *)
(***************************************************************************)
\* the most calls of processImageWithOCR in a behaviour
MaxRuns == 2

\* the image files the user may pick, and the screenshot of the webcam
Files == {"fileA", "fileB"}

Screenshot == "shot"

\* what worker.recognize reads in each image: an address with a postcode, a
\* line with none, nothing
RecognizedText(imageSrc) ==
    CASE imageSrc = "fileA" -> <<"J", "o", " ", "L", "e", "e", "\n", "B", "1", " ", "1", "A", "A">>
      [] imageSrc = "fileB" -> <<"F", "l", "a", "t", " ", "2">>
      [] OTHER -> << >>

\* what the user may type into the address field
EditValues == { << >>, <<"x">>, <<" ">> }

Services == {"google", "waze", "here", "apple"}

ScanFailed == "Failed to scan image. Please try again."

\* a || b on strings: the empty string is falsy
JsOr(a, b) == IF a # << >> THEN a ELSE b

\* value={parsedAddress || detectedText}
Displayed == JsOr(parsedAddress, detectedText)

\* the characters encodeURIComponent leaves as they are
Unreserved == Letter \cup Digit \cup {"-", "_", ".", "!", "~", "*", "'", "(", ")"}

\* the UTF-8 bytes of the other characters, in hexadecimal
PercentCode(c) ==
    CASE c = " " -> <<"%", "2", "0">>
      [] c = "\n" -> <<"%", "0", "A">>
      [] c = "\r" -> <<"%", "0", "D">>
      [] c = "\t" -> <<"%", "0", "9">>
      [] c = "," -> <<"%", "2", "C">>
      [] c = "/" -> <<"%", "2", "F">>
      [] c = "#" -> <<"%", "2", "3">>
      [] c = "$" -> <<"%", "2", "4">>
      [] c = "%" -> <<"%", "2", "5">>
      [] c = "&" -> <<"%", "2", "6">>
      [] c = "+" -> <<"%", "2", "B">>
      [] c = "=" -> <<"%", "3", "D">>
      [] c = "@" -> <<"%", "4", "0">>
      [] c = "£" -> <<"%", "C", "2", "%", "A", "3">>

EncodeChar(c) == IF c \in Unreserved THEN <<c>> ELSE PercentCode(c)

RECURSIVE encodeURIComponent(_)
encodeURIComponent(s) ==
    IF s = << >> THEN << >> ELSE EncodeChar(Head(s)) \o encodeURIComponent(Tail(s))

\* the switch of openInMaps: the URL is this prefix and then the query
UrlPrefix(service) ==
    CASE service = "google" -> "https://www.google.com/maps/search/?api=1&query="
      [] service = "waze" -> "https://waze.com/ul?q="
      [] service = "here" -> "heremaps://directions?daddr="
      [] service = "apple" -> "https://maps.apple.com/?q="

AppInit ==
    /\ text = << >>
    /\ probe = << >>
    /\ mode = "app"
    /\ generation = 0
    /\ calls = 0
    /\ lastIndex = 0
    /\ NoResult
    /\ origPostcode = << >>
    /\ noise = Normal(FALSE)
    /\ valid = Normal(FALSE)
    /\ isIOS \in BOOLEAN
    /\ Mounted

\* the results section is rendered, and in it the field and the buttons
ResultsShown == imageUrl # "null" /\ ~isScanning

\* the upload section is rendered
UploadShown == imageUrl = "null" /\ ~showCamera

\* processImageWithOCR up to its first await
StartOCR(imageSrc) ==
    /\ runCount < MaxRuns
    /\ isScanning' = TRUE
    /\ detectedText' = << >>
    /\ parsedAddress' = << >>
    /\ runCount' = runCount + 1
    /\ runs' = runs \cup {[id |-> runCount + 1, imageSrc |-> imageSrc,
                           at |-> "createWorker", text |-> << >>]}
    /\ typed' = Nothing

\* onClick={() => setShowCamera(true)}
OpenCamera ==
    /\ UploadShown
    /\ showCamera' = TRUE
    /\ UNCHANGED <<coreVars, image, imageUrl, isScanning, detectedText, parsedAddress,
                   showToast, isIOS, reads, runs, runCount, clipboard, opened,
                   typed>>

\* onClick={() => setShowCamera(false)}
CancelCamera ==
    /\ showCamera
    /\ showCamera' = FALSE
    /\ UNCHANGED <<coreVars, image, imageUrl, isScanning, detectedText, parsedAddress,
                   showToast, isIOS, reads, runs, runCount, clipboard, opened,
                   typed>>

\* handleFileUpload: no file, a file that is no image, or an image that a
\* FileReader starts to load
handleFileUpload ==
    /\ UploadShown
    /\ \E file \in Files \cup {"none", "document"} :
          /\ showToast' = IF file = "document" THEN "Please select an image file."
                          ELSE showToast
          /\ reads' = IF file \in Files THEN reads \cup {file} ELSE reads
    /\ UNCHANGED <<coreVars, image, imageUrl, isScanning, detectedText, parsedAddress,
                   showCamera, isIOS, runs, runCount, clipboard, opened,
                   typed>>

\* reader.onload
ReaderOnload ==
    \E file \in reads :
        /\ reads' = reads \ {file}
        /\ imageUrl' = file
        /\ image' = file
        /\ showCamera' = FALSE
        /\ StartOCR(file)
        /\ UNCHANGED <<coreVars, showToast, isIOS, clipboard, opened>>

\* capturePhoto: the webcam gives a screenshot, or none yet
capturePhoto ==
    /\ showCamera
    /\ \E imageSrc \in {"null", Screenshot} :
          IF imageSrc = "null"
          THEN UNCHANGED vars
          ELSE /\ imageUrl' = imageSrc
               /\ showCamera' = FALSE
               /\ StartOCR(imageSrc)
               /\ UNCHANGED <<coreVars, image, showToast, isIOS, reads, clipboard, opened>>

\* a run moves on to where next
Moved(run, next, recognized) == [run EXCEPT !.at = next, !.text = recognized]

\* await createWorker('eng') resolves
WorkerCreated ==
    \E run \in runs :
        /\ run.at = "createWorker"
        /\ runs' = (runs \ {run}) \cup {Moved(run, "recognize", << >>)}
        /\ UNCHANGED <<coreVars, image, imageUrl, isScanning, detectedText,
                       parsedAddress, showCamera, showToast, isIOS, reads, runCount,
                       clipboard, opened, typed>>

\* await worker.recognize(imageSrc) resolves
Recognized ==
    \E run \in runs :
        /\ run.at = "recognize"
        /\ runs' = (runs \ {run}) \cup
                      {Moved(run, "terminate", RecognizedText(run.imageSrc))}
        /\ UNCHANGED <<coreVars, image, imageUrl, isScanning, detectedText,
                       parsedAddress, showCamera, showToast, isIOS, reads, runCount,
                       clipboard, opened, typed>>

\* setDetectedText(text); setParsedAddress(extractAddress(text)); and the
\* finally block; the catch block if extractAddress throws
Finished(run, out) ==
    /\ detectedText' = run.text
    /\ parsedAddress' = IF out.threw THEN parsedAddress ELSE out.value
    /\ showToast' = IF out.threw THEN ScanFailed ELSE showToast
    /\ lastIndex' = out.lastIndex
    /\ isScanning' = FALSE
    /\ runs' = runs \ {run}
    /\ typed' = Nothing
    /\ UNCHANGED <<text, mode, generation, calls, threw, result, postcodeIndex,
                   postcode, addressLines, scanIndex, linesToCheck, origPostcode,
                   probe, noise, valid>>
    /\ UNCHANGED <<image, imageUrl, showCamera, isIOS, reads, runCount, clipboard, opened>>

\* await worker.terminate() resolves
Terminated ==
    \E run \in runs :
        /\ run.at = "terminate"
        /\ Finished(run, extractAddress(run.text, lastIndex))

\* one of the awaits rejects: the catch and the finally blocks
OcrFails ==
    \E run \in runs :
        /\ showToast' = ScanFailed
        /\ isScanning' = FALSE
        /\ runs' = runs \ {run}
        /\ UNCHANGED <<coreVars, image, imageUrl, detectedText, parsedAddress,
                       showCamera, isIOS, reads, runCount, clipboard, opened,
                       typed>>

\* setTimeout(() => setShowToast({ show: false, message: '' }), 3000)
ToastTimeout ==
    /\ showToast # ""
    /\ showToast' = ""
    /\ UNCHANGED <<coreVars, image, imageUrl, isScanning, detectedText, parsedAddress,
                   showCamera, isIOS, reads, runs, runCount, clipboard, opened,
                   typed>>

\* onChange={(e) => setParsedAddress(e.target.value)}
EditAddress ==
    /\ ResultsShown
    /\ \E value \in EditValues :
          /\ parsedAddress' = value
          /\ typed' = [set |-> TRUE, value |-> value]
    /\ UNCHANGED <<coreVars, image, imageUrl, isScanning, detectedText, showCamera,
                   showToast, isIOS, reads, runs, runCount, clipboard, opened>>

\* openInMaps(service) with address = parsedAddress || detectedText
OpenedWith(service, address) ==
    /\ showToast' = IF trim(address) = << >>
                    THEN "No address detected. Please edit the address field."
                    ELSE showToast
    /\ opened' = IF trim(address) = << >> THEN opened
                 ELSE [set |-> TRUE, service |-> service,
                       query |-> encodeURIComponent(address)]

openInMaps ==
    /\ ResultsShown
    /\ \E service \in Services :
          /\ service = "apple" => isIOS
          /\ OpenedWith(service, Displayed)
    /\ UNCHANGED <<coreVars, image, imageUrl, isScanning, detectedText, parsedAddress,
                   showCamera, isIOS, reads, runs, runCount, clipboard, typed>>

\* copyAddress with address = parsedAddress || detectedText, and the .then or
\* the .catch of navigator.clipboard.writeText(address)
CopiedFrom(address, written) ==
    /\ showToast' = IF trim(address) = << >> THEN "No address to copy."
                    ELSE IF written THEN "Address copied to clipboard!"
                    ELSE "Failed to copy address."
    /\ clipboard' = IF trim(address) # << >> /\ written THEN address ELSE clipboard

copyAddress ==
    /\ ResultsShown
    /\ \E written \in BOOLEAN : CopiedFrom(Displayed, written)
    /\ UNCHANGED <<coreVars, image, imageUrl, isScanning, detectedText, parsedAddress,
                   showCamera, isIOS, reads, runs, runCount, opened, typed>>

reset ==
    /\ ResultsShown
    /\ image' = "null"
    /\ imageUrl' = "null"
    /\ detectedText' = << >>
    /\ parsedAddress' = << >>
    /\ showCamera' = FALSE
    /\ typed' = Nothing
    /\ UNCHANGED <<coreVars, isScanning, showToast, isIOS, reads, runs, runCount,
                   clipboard, opened>>

AppNext ==
    \/ OpenCamera
    \/ CancelCamera
    \/ handleFileUpload
    \/ ReaderOnload
    \/ capturePhoto
    \/ WorkerCreated
    \/ Recognized
    \/ Terminated
    \/ OcrFails
    \/ ToastTimeout
    \/ EditAddress
    \/ openInMaps
    \/ copyAddress
    \/ reset

AppSpec == AppInit /\ [][AppNext]_vars

(***************************************************************************)
(* The postcode pattern as the specification words it, stated on its own   *)
(* and not through the matcher: one or two letters, one digit, optional    *)
(* letter-or-digit, optional whitespace, one digit, two letters.           *)
(***************************************************************************)
\* the pattern lies at from with nl letters, opt optional characters and ns
\* whitespace characters
PatternAt(s, from, nl, opt, ns) ==
    /\ \A k \in 0..(nl - 1) : At(s, from + k) \in Letter
    /\ At(s, from + nl) \in Digit
    /\ opt = 1 => At(s, from + nl + 1) \in Letter \cup Digit
    /\ \A k \in 0..(ns - 1) : At(s, from + nl + 1 + opt + k) \in WhiteSpace
    /\ At(s, from + nl + 1 + opt + ns) \in Digit
    /\ At(s, from + nl + 1 + opt + ns + 1) \in Letter
    /\ At(s, from + nl + 1 + opt + ns + 2) \in Letter

\* the positions just after the pattern substrings of s that start at from
\* (one starts with a letter, and its whitespace is whitespace of s)
PatternEnds(s, from) ==
    IF At(s, from) \notin Letter THEN {}
    ELSE {from + c[1] + 1 + c[2] + c[3] + 3 :
            c \in {c \in (1..2) \X (0..1) \X (0..CountIn(s, WhiteSpace)) :
                     PatternAt(s, from, c[1], c[2], c[3])}}

\* the postcode-pattern substrings of s, each as <<start, end>>
PatternOccurrences(s) ==
    UNION {{<<from, to>> : to \in PatternEnds(s, from)} : from \in 1..Len(s)}

\* those with no letter, digit or underscore next to them on either side
DelimitedOccurrences(s) ==
    {o \in PatternOccurrences(s) :
        At(s, o[1] - 1) \notin WordChar /\ At(s, o[2]) \notin WordChar}

SubstringAt(s, o) == Slice(s, o[1], o[2])

\* r ends with p, and p is all of r or follows a ", "
IsLastComponent(r, p) ==
    /\ Len(r) >= Len(p)
    /\ Slice(r, Len(r) - Len(p) + 1, Len(r) + 1) = p
    /\ \/ Len(r) = Len(p)
       \/ /\ Len(r) >= Len(p) + 2
          /\ Slice(r, Len(r) - Len(p) - 1, Len(r) - Len(p) + 1) = CommaSpace

\* a call of either version of extractAddress has returned
Extracted == mode \in {"extracted", "extractedSimple"}

\* C1: when the text has no postcode-pattern substring, extractAddress (in
\* either version) returns the text itself, character for character.
C1_VerbatimFallback ==
    (Extracted /\ PatternOccurrences(text) = {})
        => (~threw /\ postcodeIndex = -1 /\ result = text)

\* C1 witness: a call returned a text without any pattern substring whose
\* blank lines and padding a trim-and-filter would have changed.
C1_Witness ==
    /\ mode = "extracted"
    /\ PatternOccurrences(text) = {}
    /\ Len(SplitLines(text)) >= 2
    /\ text # join(SplitLines(text), Newline)
    /\ result = text

\* the one member of a set of one
TheOne(S) == CHOOSE o \in S : TRUE

\* the result ends with the substring at occurrence o as its last component
EndsWithOccurrence(o) == IsLastComponent(result, SubstringAt(text, o))

C2_OriginalFor(occ) == Cardinality(occ) = 1 => EndsWithOccurrence(TheOne(occ))

\* C2 as stated: when the text has exactly one postcode-pattern substring,
\* the result ends with that substring as its last ", "-separated component.
C2_Original == mode = "extracted" => C2_OriginalFor(PatternOccurrences(text))

\* the occurrence o of the text lies within one line and is delimited
WithinLineAndDelimited(o) ==
    /\ At(text, o[1] - 1) \notin WordChar
    /\ At(text, o[2]) \notin WordChar
    /\ "\n" \notin Range(SubstringAt(text, o))

C2_AmendedFor(occ) ==
    (Cardinality(occ) = 1 /\ WithinLineAndDelimited(TheOne(occ)))
        => /\ ~threw
           /\ postcode = SubstringAt(text, TheOne(occ))
           /\ EndsWithOccurrence(TheOne(occ))

\* C2 amended: when the text has exactly one postcode-pattern substring, and
\* that substring lies within one line and has no letter, digit or underscore
\* next to it, the result ends with that substring, exactly as it appears in
\* the text, as its last ", "-separated component.
C2_Amended == mode = "extracted" => C2_AmendedFor(PatternOccurrences(text))

C2_WitnessFor(occ) ==
    /\ Cardinality(occ) = 1
    /\ WithinLineAndDelimited(TheOne(occ))
    /\ EndsWithOccurrence(TheOne(occ))

\* C2 witness: the single pattern substring sits inside a longer line, with a
\* line before it, and ends the result.
C2_Witness ==
    /\ mode = "extracted"
    /\ postcodeIndex >= 1
    /\ Len(addressLines) >= 2
    /\ postcode # SplitLines(text)[postcodeIndex + 1]
    /\ C2_WitnessFor(PatternOccurrences(text))

\* the lines (1-based) that contain a pattern substring, delimited or any
LinesWithPattern(lines) == {i \in DOMAIN lines : PatternOccurrences(lines[i]) # {}}

LinesWithDelimited(lines) == {i \in DOMAIN lines : DelimitedOccurrences(lines[i]) # {}}

\* the leftmost of the occurrences occ
Leftmost(occ) == {o \in occ : \A q \in occ : o[1] <= q[1]}

\* the locator's answer on lines is the first of the lines in S, with one of
\* the leftmost of the occurrences occ of that line as the postcode
PicksFrom(line, occ) == \E o \in Leftmost(occ) : postcode = SubstringAt(line, o)

FirstLinePicked(lines, S) == postcodeIndex = SetMin(S) - 1

LocatorPicksPattern(lines) ==
    IF LinesWithPattern(lines) = {} THEN postcodeIndex = -1
    ELSE /\ FirstLinePicked(lines, LinesWithPattern(lines))
         /\ PicksFrom(lines[postcodeIndex + 1], PatternOccurrences(lines[postcodeIndex + 1]))

LocatorPicksDelimited(lines) ==
    IF LinesWithDelimited(lines) = {} THEN postcodeIndex = -1
    ELSE /\ FirstLinePicked(lines, LinesWithDelimited(lines))
         /\ PicksFrom(lines[postcodeIndex + 1],
                      DelimitedOccurrences(lines[postcodeIndex + 1]))

\* C4 as stated: the locator selects the first line that contains a
\* postcode-pattern substring and reports that substring; no line containing
\* one is passed over.
C4_Original ==
    mode = "extracted"
        => LocatorPicksPattern(SplitLines(text))

\* C4 amended: the locator selects the smallest line index whose line contains
\* a postcode-pattern substring with no letter, digit or underscore next to it
\* on either side, and reports the leftmost such substring of that line, not
\* the whole line; a line containing such a delimited substring is never
\* passed over.
C4_Amended ==
    mode = "extracted"
        => LocatorPicksDelimited(SplitLines(text))

\* C4 witness: the located line is not the first line, an earlier line holds
\* an undelimited pattern substring, a later line holds another postcode, and
\* the postcode is a proper part of its line.
C4_Witness ==
    /\ mode = "extracted"
    /\ postcodeIndex >= 1
    /\ \E i \in LinesWithPattern(SplitLines(text)) : i < postcodeIndex + 1
    /\ \E i \in LinesWithDelimited(SplitLines(text)) : i > postcodeIndex + 1
    /\ postcode # SplitLines(text)[postcodeIndex + 1]

\* a line the scan accepts
Accepted(line) == isValidAddressLine(line).value /\ ~isPackageMetadata(line).value

\* the lines before the postcode line
Preceding(lines) == SubSeq(lines, 1, postcodeIndex)

\* the last n of a sequence
LastN(q, n) == SubSeq(q, Max(1, Len(q) - n + 1), Len(q))

\* C3: when a postcode is found, at most 4 lines stand before the postcode in
\* the output (of either version), however many acceptable lines precede it.
C3_AtMostFourLines ==
    (Extracted /\ postcodeIndex # -1)
        => /\ Len(addressLines) - 1 <= 4
           /\ addressLines[Len(addressLines)] = postcode
           /\ result = join(addressLines, CommaSpace)

\* C3 witness: more than four accepted lines precede the postcode line, and
\* the output holds four of them.
C3_Witness ==
    /\ mode = "extracted"
    /\ postcodeIndex >= 5
    /\ Len(SelectSeq(Preceding(SplitLines(text)), Accepted)) > 4
    /\ Len(addressLines) = 5

\* the lines up to and including the postcode line, then those of tail
WithTail(lines, tail) == join(SubSeq(lines, 1, postcodeIndex + 1) \o tail, Newline)

\* what may follow the postcode line: nothing, a second postcode, an
\* acceptable line and a postcode, a tracking line
Tails ==
    { << >>,
      << <<"E", "3", " ", "4", "F", "G">> >>,
      << <<"Z", "z">>, <<"t", "o", " ", "N", "1", " ", "2", "C", "D">> >>,
      << <<"T", "R", "A", "C", "K", "1", "2", "3", "4", "5", "6", "7", "8", "9", "0">> >> }

SameWhateverFollows(lines) ==
    \A tail \in Tails : extractAddress(WithTail(lines, tail), 0).value = result

\* C5: the output depends only on the lines up to and including the first
\* line in which a postcode is found: whatever follows that line, the output
\* is the same.
C5_OnlyUpToFirstPostcode ==
    (mode = "extracted" /\ postcodeIndex # -1) => SameWhateverFollows(SplitLines(text))

\* C5 witness: lines follow the postcode line, one of them with a postcode of
\* its own, and lines precede it.
C5_WitnessFor(lines) ==
    /\ postcodeIndex >= 1
    /\ Len(addressLines) >= 2
    /\ \E i \in LinesWithDelimited(lines) : i > postcodeIndex + 1

C5_Witness == mode = "extracted" /\ C5_WitnessFor(SplitLines(text))

\* C6: extractAddress holds no state between calls: after any sequence of
\* calls (the same text again, the output of a call, the text of another
\* scan) a call returns what a first call on a fresh regular expression
\* returns for its argument, and leaves lastIndex at 0.
C6_Stateless ==
    /\ lastIndex = 0
    /\ mode = "extracted" => result = extractAddress(text, 0).value

\* C6 witness: the second call on a text with two postcodes on its first
\* line, where a regular expression that kept its place would start late.
C6_Witness ==
    /\ mode = "extracted"
    /\ calls = 2
    /\ postcodeIndex = 0
    /\ Cardinality(DelimitedOccurrences(SplitLines(text)[1])) >= 2
    /\ result = extractAddress(text, 0).value

\* C7: extractAddress on the output of a call that found postcode p finds p
\* again and returns a string whose last component is p.
C7_RerunKeepsPostcode ==
    (mode = "extracted" /\ generation = 1)
        => /\ ~threw
           /\ postcodeIndex # -1
           /\ postcode = origPostcode
           /\ IsLastComponent(result, origPostcode)

\* C7 witness: the output fed back held address lines before the postcode.
C7_Witness ==
    /\ mode = "extracted"
    /\ generation = 1
    /\ Len(text) > Len(origPostcode)
    /\ postcode = origPostcode

\* C8 as stated: for every text, extractAddress returns a non-empty string
\* and raises no error.
C8_Original == mode = "extracted" => (~threw /\ result # << >>)

\* C8 amended: for every non-empty text, extractAddress returns a non-empty
\* string and raises no error: the assembled address when a postcode is found,
\* the text itself when none is; for the empty text it returns the empty
\* string.
C8_Amended ==
    mode = "extracted"
        => /\ ~threw
           /\ text # << >> => result # << >>
           /\ text = << >> => result = << >>
           /\ postcodeIndex = -1 => result = text
           /\ postcodeIndex # -1 => result = join(addressLines, CommaSpace)

\* C8 witness: a text of whitespace alone, with no line left after trimming,
\* came back as it was.
C8_Witness ==
    /\ mode = "extracted"
    /\ text # << >>
    /\ SplitLines(text) = << >>
    /\ result = text

\* C9: both classifiers return a boolean and do not throw, on every string:
\* the empty string, whitespace alone and symbols alone among them.
C9_ClassifiersTotal ==
    mode = "classified"
        => /\ ~noise.threw /\ noise.value \in BOOLEAN
           /\ ~valid.threw /\ valid.value \in BOOLEAN
           /\ trim(probe) = << >> => (~noise.value /\ ~valid.value)

\* C9 witness: the classifiers have returned on a string of length 0 after
\* trimming, where both ratios are 0/0.
C9_Witness ==
    /\ mode = "classified"
    /\ trim(probe) = << >>
    /\ JsDivide(CountIn(trim(probe), Digit), Len(trim(probe))).nan
    /\ ~noise.threw /\ ~valid.threw

\* the (up to 8) lines the scan may inspect: those nearest the postcode line
Inspected(lines) == LastN(Preceding(lines), 8)

NearestAccepted(lines) == LastN(SelectSeq(Inspected(lines), Accepted), 4)

\* C10: the address lines of the output are the accepted lines nearest to the
\* postcode, up to 4 of them, among the inspected lines before it, in their
\* original order; a rejected line between accepted lines does not stop the
\* scan; with the postcode on the first line, or every inspected line
\* rejected, the output is the postcode alone.
C10_NearestAcceptedInOrder ==
    (mode = "extracted" /\ postcodeIndex # -1)
        => /\ addressLines = NearestAccepted(SplitLines(text)) \o <<postcode>>
           /\ result = join(addressLines, CommaSpace)

\* C10 witness: a rejected line lies between two accepted lines that are both
\* in the output, and an accepted line further up is left out.
C10_WitnessFor(lines) ==
    /\ Len(addressLines) = 5
    /\ \E i \in 1..postcodeIndex, j \in 1..postcodeIndex, k \in 1..postcodeIndex :
        /\ i < j /\ j < k
        /\ addressLines[1] = lines[i]
        /\ ~Accepted(lines[j])
        /\ addressLines[4] = lines[k]
        /\ \E h \in 1..(i - 1) : Accepted(lines[h])

C10_Witness ==
    mode = "extracted" /\ postcodeIndex # -1 /\ C10_WitnessFor(SplitLines(text))

\* the lines the scan of the last call inspected: those at the indices from
\* postcodeIndex - 1 down to scanIndex + 1
InspectedCount == postcodeIndex - 1 - scanIndex

\* the accepted lines among the m lines nearest the postcode line
AcceptedAmong(lines, m) == SelectSeq(LastN(Preceding(lines), m), Accepted)

\* after m inspections the scan has a reason to stop: 4 lines accepted, 8
\* lines inspected, or index 0 processed
MayStop(lines, m) ==
    \/ Len(AcceptedAmong(lines, m)) = 4
    \/ m = 8
    \/ m = postcodeIndex

C11_For(lines, n) ==
    /\ n \in 0..8
    /\ scanIndex + 1 >= postcodeIndex - 8
    /\ scanIndex + 1 >= 0
    /\ linesToCheck = Min(8, postcodeIndex) - n
    /\ MayStop(lines, n)
    /\ \A m \in 0..(n - 1) : ~MayStop(lines, m)
    /\ addressLines = AcceptedAmong(lines, n) \o <<postcode>>

\* C11: the backward scan inspects at most 8 lines, accepted and rejected
\* alike: with the postcode at index k no line at an index below k - 8 is
\* inspected or part of the output, and the scan stops at the first moment at
\* which 4 lines are accepted, 8 lines are inspected or index 0 is processed.
C11_ScanBudget ==
    (mode = "extracted" /\ postcodeIndex # -1 /\ ~threw)
        => C11_For(SplitLines(text), InspectedCount)

C11_WitnessFor(lines) ==
    /\ InspectedCount = 8
    /\ linesToCheck = 0
    /\ Len(addressLines) - 1 \in 1..3
    /\ \E h \in 1..(postcodeIndex - 8) : Accepted(lines[h])
    /\ \E j \in (postcodeIndex - 7)..postcodeIndex : ~Accepted(lines[j])

\* C11 witness: more than 8 lines precede the postcode, the scan spent its 8
\* inspections on accepted and rejected lines, kept fewer than 4, and left an
\* acceptable line beyond the eighth out.
C11_Witness ==
    mode = "extracted" /\ postcodeIndex >= 9 /\ C11_WitnessFor(SplitLines(text))

\* the lines of the output that stand before the postcode
BeforePostcode == SubSeq(addressLines, 1, Len(addressLines) - 1)

\* C12: every line before the postcode in the output of extractAddress
\* satisfies isValidAddressLine and does not satisfy isPackageMetadata.
C12_OnlyAcceptedLines ==
    (mode = "extracted" /\ postcodeIndex # -1 /\ ~threw)
        => \A j \in 1..Len(BeforePostcode) :
              /\ isValidAddressLine(BeforePostcode[j]) = Normal(TRUE)
              /\ isPackageMetadata(BeforePostcode[j]) = Normal(FALSE)

C12_WitnessFor(lines) ==
    /\ Len(BeforePostcode) >= 2
    /\ \E j \in (scanIndex + 2)..postcodeIndex :
          /\ isPackageMetadata(lines[j]).value
          /\ \A h \in 1..Len(BeforePostcode) : BeforePostcode[h] # lines[j]
    /\ \E j \in (scanIndex + 2)..postcodeIndex :
          /\ ~isPackageMetadata(lines[j]).value
          /\ ~isValidAddressLine(lines[j]).value
          /\ \A h \in 1..Len(BeforePostcode) : BeforePostcode[h] # lines[j]

\* C12 witness: the scan inspected a noise line and a line that is not noise
\* but fails the validity test, kept neither, and kept two other lines.
C12_Witness ==
    mode = "extracted" /\ postcodeIndex # -1 /\ C12_WitnessFor(SplitLines(text))

\* a line with no whitespace that holds a letter, a digit and a special
\* character (one of the symbols the garbled-token rule itself looks for)
MixesLetterDigitSpecial(s) ==
    /\ CountIn(s, WhiteSpace) = 0
    /\ CountIn(s, Letter) > 0
    /\ CountIn(s, Digit) > 0
    /\ CountIn(s, GarbleSymbols) > 0

\* C13 as stated: isPackageMetadata returns true for every line that has no
\* whitespace and holds a letter, a digit and a special character, whatever
\* their order and whatever the length of the line.
C13_Original ==
    (mode = "classified" /\ MixesLetterDigitSpecial(probe)) => noise = Normal(TRUE)

\* the validity test as the specification words it, on line s: at least one
\* letter, a length between 2 and 50, and a share of letters and whitespace
\* of at least 0.4 (10 * count >= 4 * length) or a length of at most 5
ValidAsSpecified(s) ==
    /\ \E k \in 1..Len(s) : s[k] \in Letter
    /\ Len(s) >= 2 /\ Len(s) <= 50
    /\ \/ 10 * CountIn(s, Letter \cup WhiteSpace) >= 4 * Len(s)
       \/ Len(s) <= 5

\* C14: isValidAddressLine returns true exactly when the line (a trimmed
\* line, as every line of the line list is; the function trims its argument
\* first) holds at least one letter, has a length between 2 and 50, and either
\* a share of letter-or-space characters of at least 0.4 or a length of at
\* most 5; for every other line it returns false.
C14_ValidExactly ==
    mode = "classified"
        => /\ valid = Normal(ValidAsSpecified(trim(probe)))
           /\ probe = trim(probe) => (valid.value <=> ValidAsSpecified(probe))

\* C14 witness: a trimmed line longer than 5 whose share of letters and
\* whitespace is exactly 0.4 was found valid.
C14_Witness ==
    /\ mode = "classified"
    /\ probe = trim(probe)
    /\ Len(probe) > 5
    /\ 10 * CountIn(probe, Letter \cup WhiteSpace) = 4 * Len(probe)
    /\ valid = Normal(TRUE)

\* C15 as stated: after a scan has produced a result, what the user last
\* typed into the address field (the empty string included) is the address
\* displayed, the address copyAddress copies and the address openInMaps
\* encodes into the URL, and not the earlier OCR text.  (typed is what was
\* typed since the last scan result, start of a scan or reset.)
C15_Original ==
    /\ [](typed.set => Displayed = typed.value)
    /\ [][(typed.set /\ clipboard' # clipboard) => clipboard' = typed.value]_vars
    /\ [][(typed.set /\ opened' # opened)
            => opened'.query = encodeURIComponent(typed.value)]_vars

\* the OCR text of the image shown and the address extracted from it
ResultOf(imageSrc, recognized) ==
    /\ imageSrc # "null"
    /\ detectedText = recognized
    /\ typed.set \/ parsedAddress = extractAddress(recognized, 0).value

\* C16 as stated: in every state with no OCR run in flight, detectedText and
\* parsedAddress are both empty or are the OCR text and the extracted address
\* of the image held in imageUrl (the address as the user has edited it since,
\* if edited), under any interleaving of file selections, captures, resets
\* and OCR completions.
C16_Original ==
    runs = {}
        => \/ detectedText = << >> /\ (typed.set \/ parsedAddress = << >>)
           \/ ResultOf(imageUrl, RecognizedText(imageUrl))

\* C17 as stated: isScanning is true in every state in which a run started
\* by processImageWithOCR has not finished and false once every started run
\* has finished; a run that fails leaves detectedText and parsedAddress empty
\* and shows the error toast.
C17_Original ==
    /\ [](isScanning <=> runs # {})
    /\ [][OcrFails => /\ detectedText' = << >>
                       /\ parsedAddress' = << >>
                       /\ showToast' = ScanFailed]_vars


=============================================================================
